---------------------------- MODULE Spec2Model ----------------------------
(***************************************************************************)
(* safestride: risk-aware pedestrian routing (src/api/build_risk.py,       *)
(* src/api/main.py).                                                       *)
(*                                                                         *)
(* Units.  Angles are integers in 1e-7 degree, cell keys (the %.6f text of *)
(* a bin corner) are integers in 1e-6 degree, distances are in 100 m, a    *)
(* normalised risk in [0,1] is a level k in 0..RiskScale standing for      *)
(* k/RiskScale, alpha is in tenths, a CSV sev_sum is in tenths.  Averages  *)
(* and scores are exact fractions <<numerator, denominator>>.              *)
(***************************************************************************)
EXTENDS Integers, Sequences, FiniteSets, TLC

\* ------------------------------------------------------------ bounds
RiskScale == 2
MaxPts    == 3
MaxRoutes == 4
MaxRows   == 2
MaxLoads  == 2
MaxAvgPts == 121

\* ------------------------------------------------- program constants
CELL_DEG      == 16000      \* 0.0016 degree
MAX_SAMPLES   == 300
AVG_SAMPLES   == 60
TOP_ROUTES    == 3
W_DIST        == 7          \* 0.7
W_RISK        == 3          \* 0.3

Windows == {"day", "evening", "night"}

\* ------------------------------------------------------ small helpers
Max(a, b) == IF a >= b THEN a ELSE b
Min(a, b) == IF a <= b THEN a ELSE b

RECURSIVE SumSet(_, _)
SumSet(f, S) ==
    IF S = {} THEN 0
    ELSE LET x == CHOOSE y \in S : TRUE IN f[x] + SumSet(f, S \ {x})

\* The sum of f over the members of S in lo..hi, by halves (a route has
\* more vertices than a one-by-one recursion can descend)
RECURSIVE SumIdx(_, _, _, _)
SumIdx(f, S, lo, hi) ==
    IF lo > hi THEN 0
    ELSE IF lo = hi THEN (IF lo \in S THEN f[lo] ELSE 0)
    ELSE LET mid == (lo + hi) \div 2
         IN  SumIdx(f, S, lo, mid) + SumIdx(f, S, mid + 1, hi)

\* All sequences over S of length lo..hi
SeqsOf(S, lo, hi) == UNION {[1..n -> S] : n \in lo..hi}

\* Python's s[:k]
Take(s, k) == SubSeq(s, 1, Min(k, Len(s)))

\* list(range(0, n, step)) as 1-based positions
RangeStep(n, step) == {i \in 1..n : (i - 1) % step = 0}

\* ------------------------------------------------------- grid codec
\* f"{x:.6f}": six decimals, i.e. the nearest 1e-6 degree
Fmt6(x) == (x + 5) \div 10

_cell_key_from_bin(lat_bin, lon_bin) == <<Fmt6(lat_bin), Fmt6(lon_bin)>>

_bin_for(lat, lon) ==
    <<(lat \div CELL_DEG) * CELL_DEG, (lon \div CELL_DEG) * CELL_DEG>>

\* min(111320, 111320*cos(49.28 deg)) * 0.0016 = 116.194 m, in millimetres
_approx_cell_size_m == 116194

\* ------------------------------------------------------ risk lookup
\* The runtime risk index: risk(window, lat, lon), 0 for a cell the index
\* does not hold.  idx[w] is a function from cell keys to levels.
risk_at(idx, lat, lon, w) ==
    LET b   == _bin_for(lat, lon)
        key == _cell_key_from_bin(b[1], b[2])
    IN  IF key \in DOMAIN idx[w] THEN idx[w][key] ELSE 0

\* try: float(risk_at(...)) except Exception: 0.0 -- wired = FALSE is the
\* process in which the helper is not there and every lookup raises.
risk_at_safe(idx, wired, lat, lon, w) ==
    IF wired THEN risk_at(idx, lat, lon, w) ELSE 0

\* risk of vertex <<lon, lat>>
VertexRisk(idx, wired, v, w) == risk_at_safe(idx, wired, v[2], v[1], w)

\* ------------------------------------------------- exact fractions
FracLess(a, b) == a[1] * b[2] < b[1] * a[2]
FracLeq(a, b)  == a[1] * b[2] <= b[1] * a[2]
FracEq(a, b)   == a[1] * b[2] = b[1] * a[2]

\* ------------------------------------------------------ route scoring
\* The fraction total/n over the vertices at 0, step, 2*step, ...; risk
\* levels stand for level/RiskScale, so the mean is
\* total / (n * RiskScale).
\* route_avg_risk with the stride rounded up instead of down
route_avg_riskCeil(idx, wired, route_coords, w) ==
    LET npts == Len(route_coords)
        step == Max(1, (npts + AVG_SAMPLES - 1) \div AVG_SAMPLES)
        vis  == RangeStep(npts, step)
        rk   == [i \in vis |-> VertexRisk(idx, wired, route_coords[i], w)]
    IN  IF npts = 0 THEN <<0, 1>>
        ELSE <<SumIdx(rk, vis, 1, npts), Cardinality(vis) * RiskScale>>

route_avg_risk(idx, wired, route_coords, w) ==
    LET npts == Len(route_coords)
        step == Max(1, npts \div AVG_SAMPLES)
        vis  == RangeStep(npts, step)
        rk   == [i \in vis |-> VertexRisk(idx, wired, route_coords[i], w)]
    IN  IF npts = 0 THEN <<0, 1>>
        ELSE <<SumIdx(rk, vis, 1, npts), Cardinality(vis) * RiskScale>>

\* The loop of worst_point from vertex i on; st = <<worst_i, worst_r, worst_ll>>
\* with worst_i a 0-based index.
RECURSIVE WorstScanGe(_, _, _, _, _, _)
WorstScanGe(idx, wired, route_coords, w, i, st) ==
    IF i > Len(route_coords) THEN st
    ELSE LET r == VertexRisk(idx, wired, route_coords[i], w)
         IN  WorstScanGe(idx, wired, route_coords, w, i + 1,
                 IF r >= st[2] THEN <<i - 1, r, route_coords[i]>> ELSE st)

RECURSIVE WorstScan(_, _, _, _, _, _)
WorstScan(idx, wired, route_coords, w, i, st) ==
    IF i > Len(route_coords) THEN st
    ELSE LET r == VertexRisk(idx, wired, route_coords[i], w)
         IN  WorstScan(idx, wired, route_coords, w, i + 1,
                 IF r > st[2] THEN <<i - 1, r, route_coords[i]>> ELSE st)

\* worst_i, worst_r, worst_ll = 0, -1.0, route_coords[0]
worst_point(idx, wired, route_coords, w) ==
    WorstScan(idx, wired, route_coords, w, 1, <<0, -RiskScale, route_coords[1]>>)

\* ------------------------------------------------------ detour waypoint
\* j = idx-1 if idx > 0 else min(idx+1, len(route_coords)-1)   (0-based)
NeighborIndexPred(i, n) == Max(i - 1, 0)

NeighborIndex(i, n) == IF i > 0 THEN i - 1 ELSE Min(i + 1, n - 1)

\* The waypoint is the worst vertex moved offset_m at 90 degrees to the
\* bearing from it to its neighbour; the trigonometry is not evaluated, the
\* point is kept as what it was computed from.  left_r and right_r are the
\* index's risks at the two offset points.
propose_detour_waypoint(idx, wired, route_coords, w, offset_m, left_r, right_r) ==
    LET wp == worst_point(idx, wired, route_coords, w)
        j  == NeighborIndex(wp[1], Len(route_coords))
    IN  [worst    |-> wp[1],
         worst_ll |-> wp[3],
         j        |-> j,
         neighbor |-> route_coords[j + 1],
         offset_m |-> offset_m,
         side     |-> IF left_r <= right_r THEN "left" ELSE "right"]

\* ------------------------------------------------------ severity scorer
\* samples = [route_coords[i] for i in range(0, npts, stride)]
Samples(route_coords) ==
    LET npts   == Len(route_coords)
        stride == Max(1, npts \div MAX_SAMPLES)
        n      == (npts + stride - 1) \div stride
    IN  [k \in 1..n |-> route_coords[(k - 1) * stride + 1]]

\* ceil(a / b) for a >= 0, b > 0
CeilDiv(a, b) == (a + b - 1) \div b

\* r = max(1, int(math.ceil(buffer_m / max(1.0, cell_m))))
BinRadiusNoFloor(buffer_m) ==
    CeilDiv(buffer_m * 1000, Max(1000, _approx_cell_size_m))

BinRadius(buffer_m) ==
    Max(1, CeilDiv(buffer_m * 1000, Max(1000, _approx_cell_size_m)))

\* The k-th key of the (2r+1) x (2r+1) neighbourhood of sample <<lon, lat>>,
\* in the order of the loops over di and dj.
NbKey(sample, r, k) ==
    LET b  == _bin_for(sample[2], sample[1])
        di == ((k - 1) \div (2 * r + 1)) - r
        dj == ((k - 1) % (2 * r + 1)) - r
    IN  _cell_key_from_bin(b[1] + di * CELL_DEG, b[2] + dj * CELL_DEG)

\* One pass of the two inner loops from position k on; acc = <<seen, sev_total>>
RECURSIVE NbLoopNoSeen(_, _, _, _, _)
NbLoopNoSeen(cells, sample, r, k, acc) ==
    IF k > (2 * r + 1) * (2 * r + 1) THEN acc
    ELSE LET key == NbKey(sample, r, k)
         IN  IF key \in DOMAIN cells
             THEN NbLoopNoSeen(cells, sample, r, k + 1,
                               <<acc[1] \cup {key}, acc[2] + cells[key]>>)
             ELSE NbLoopNoSeen(cells, sample, r, k + 1, acc)

RECURSIVE NbLoop(_, _, _, _, _)
NbLoop(cells, sample, r, k, acc) ==
    IF k > (2 * r + 1) * (2 * r + 1) THEN acc
    ELSE LET key == NbKey(sample, r, k)
         IN  IF key \in acc[1]
             THEN NbLoop(cells, sample, r, k + 1, acc)
             ELSE IF key \in DOMAIN cells
             THEN NbLoop(cells, sample, r, k + 1,
                         <<acc[1] \cup {key}, acc[2] + cells[key]>>)
             ELSE NbLoop(cells, sample, r, k + 1, acc)

\* for lon, lat in samples: ... from sample s on
RECURSIVE SampleLoop(_, _, _, _, _)
SampleLoop(cells, samples, r, s, acc) ==
    IF s > Len(samples) THEN acc
    ELSE SampleLoop(cells, samples, r, s + 1, NbLoop(cells, samples[s], r, 1, acc))

\* Returns [severity_score, crimes_per_km]; crimes_per_km is the fraction
\* sev_total / max(dist_km, 1e-6) with dist given in 100 m.
severity_for_route(sev, route_coords, dist_hm, w, buffer_m) ==
    LET cells == IF w \in DOMAIN sev THEN sev[w] ELSE <<>>
        acc   == SampleLoop(cells, Samples(route_coords), BinRadius(buffer_m), 1,
                            <<{}, 0>>)
    IN  IF Len(route_coords) = 0 \/ DOMAIN cells = {}
        THEN [severity_score |-> 0, crimes_per_km |-> <<0, 1>>]
        ELSE [severity_score |-> acc[2],
              crimes_per_km  |-> <<acc[2] * 1000000, Max(dist_hm * 100000, 1)>>]

\* ------------------------------------------------------ severity loader
\* SEV_INDEX: window -> dict from cell key to sev_sum; a dict is a function
\* whose DOMAIN is its key set, <<>> the empty dict.
EmptyIndex == [w \in Windows |-> <<>>]

\* A CSV field is <<"num", v>>, <<"text", 0>> (not a number) or <<"none", 0>>
\* (the row is short: DictReader gives None).  The window field is a string,
\* "" when empty or missing.
Field(kind, v) == <<kind, v>>

\* float(x): the value, or the exception it raises
FloatOf(f) ==
    IF f[1] = "num" THEN [raised |-> "none", v |-> f[2]]
    ELSE IF f[1] = "text" THEN [raised |-> "ValueError", v |-> 0]
    ELSE [raised |-> "TypeError", v |-> 0]

\* One row applied to the index: [index, raised]
LoadRow(index, row) ==
    LET win == IF row.window = "" THEN "day" ELSE row.window
        lat == FloatOf(row.lat)
        lon == FloatOf(row.lon)
        sev == FloatOf(row.sev_sum)
        key == _cell_key_from_bin(lat.v, lon.v)
        old == IF key \in DOMAIN index[win] THEN index[win][key] ELSE 0
        \* int(float(.)) of a value in tenths
        sev_sum == sev.v \div 10
    IN  IF win \notin DOMAIN index THEN [index |-> index, raised |-> "none"]
        ELSE IF lat.raised # "none" THEN [index |-> index, raised |-> lat.raised]
        ELSE IF lon.raised # "none" THEN [index |-> index, raised |-> lon.raised]
        ELSE IF sev.raised # "none" THEN [index |-> index, raised |-> sev.raised]
        ELSE [index  |-> [index EXCEPT ![win] =
                             [k \in DOMAIN index[win] \cup {key} |->
                                 IF k = key THEN old + sev_sum ELSE index[win][k]]],
              raised |-> "none"]

\* for row in rdr: ... from row k on; the first exception ends the loop with
\* the rows before it applied.
RECURSIVE LoadRows(_, _, _)
LoadRows(index, rows, k) ==
    IF k > Len(rows) THEN [index |-> index, raised |-> "none"]
    ELSE LET one == LoadRow(index, rows[k])
         IN  IF one.raised # "none" THEN one
             ELSE LoadRows(one.index, rows, k + 1)

\* A file is [kind |-> "absent" | "unreadable" | "csv", rows |-> <<...>>]:
\* open() raises FileNotFoundError for the first and another OSError for the
\* second.
load_severity_index(index, file) ==
    IF file.kind = "absent" THEN [index |-> EmptyIndex, raised |-> "none"]
    ELSE IF file.kind = "unreadable"
    THEN [index |-> index, raised |-> "PermissionError"]
    ELSE LoadRows(index, file.rows, 1)

\* ------------------------------------------------------ route selector
\* score = (dist_km * 0.7) + (r_avg * alpha * 0.3), as an exact fraction:
\* dist in 100 m, r_avg = <<a, b>>, alpha in tenths.
Score(dist_hm, r_avg, alpha) ==
    <<W_DIST * dist_hm * r_avg[2] + W_RISK * r_avg[1] * alpha, 100 * r_avg[2]>>

\* for r in routes[:3]: ... scored.append((tag, score, dist_km, r_avg, geom))
ScoreRoutes(idx, wired, routes, tag, req) ==
    LET top == Take(routes, TOP_ROUTES)
    IN  [i \in 1..Len(top) |->
            LET r_avg == route_avg_risk(idx, wired, top[i].geometry, req.time_window)
            IN  [tag    |-> tag,
                 score  |-> Score(top[i].distance, r_avg, req.alpha),
                 dist_hm |-> top[i].distance,
                 r_avg  |-> r_avg,
                 geom   |-> top[i].geometry]]

\* sorted(scored, key=lambda x: x[1]) is a stable sort: x is placed after
\* every element whose score is not greater than its own.
InsertBeforeTies(sorted, x) ==
    LET k == Cardinality({i \in 1..Len(sorted) : FracLess(sorted[i].score, x.score)})
    IN  SubSeq(sorted, 1, k) \o <<x>> \o SubSeq(sorted, k + 1, Len(sorted))

InsertByScore(sorted, x) ==
    LET k == Cardinality({i \in 1..Len(sorted) : FracLeq(sorted[i].score, x.score)})
    IN  SubSeq(sorted, 1, k) \o <<x>> \o SubSeq(sorted, k + 1, Len(sorted))

RECURSIVE SortedPrefix(_, _)
SortedPrefix(scored, n) ==
    IF n = 0 THEN <<>>
    ELSE InsertByScore(SortedPrefix(scored, n - 1), scored[n])

SortedByScore(scored) == SortedPrefix(scored, Len(scored))

\* if risk_avg_best >= req.risk_threshold    (threshold is a risk level)
NeedsDetourAbove(best, req) == FracLess(<<req.risk_threshold, RiskScale>>, best.r_avg)
NeedsDetourAlways(best, req) == TRUE

NeedsDetour(best, req) == FracLeq(<<req.risk_threshold, RiskScale>>, best.r_avg)

\* What ends the request at the first directions call: the call raising, or
\* "if not routes: raise HTTPException(404)".
FirstCallFailure(ok, routes) ==
    IF ~ok THEN "upstream_error"
    ELSE IF Len(routes) = 0 THEN "no_route"
    ELSE "none"

\* What ends the request at the detour call: only the call raising; routes2
\* is not tested for emptiness.
DetourCallFailureOnEmpty(ok, routes2) ==
    IF ~ok THEN "upstream_error"
    ELSE IF Len(routes2) = 0 THEN "no_route"
    ELSE "none"

DetourCallFailure(ok, routes2) ==
    IF ~ok THEN "upstream_error" ELSE "none"

\* =================================================================== state
VARIABLES
    SEV_INDEX,   \* the severity index, window -> dict
    riskIndex,   \* the normalised-risk index behind risk_at
    riskWired,   \* whether risk_at is there to be called
    lastFile,    \* the file the last load_severity_index call read
    raised,      \* what that call raised ("none" when it returned)
    nLoads,      \* calls of load_severity_index so far
    fnArgs,      \* arguments of a scorer / proposer call
    fnRet,       \* what the call returned
    pc,          \* the request's phase
    req,         \* AddressRouteReq
    scored,      \* the candidate pool
    best_orig,   \* <<best original candidate>>, <<>> before it is known
    wp,          \* <<the proposed waypoint>>, <<>> when none was proposed
    sent,        \* per directions call, the number of coordinates sent
    got,         \* per directions call, the number of routes returned
    geoCalls,    \* geocoding calls made
    resp,        \* <<RouteResp>>, <<>> while none is returned
    failure,     \* why the request failed ("none" while it has not)
    phases       \* the phases the request has been in

envVars  == <<SEV_INDEX, riskIndex, riskWired>>
loadVars == <<lastFile, raised, nLoads>>
fnVars   == <<fnArgs, fnRet>>
reqVars  == <<pc, req, scored, best_orig, wp, sent, got, geoCalls, resp, failure, phases>>
vars     == <<envVars, loadVars, fnVars, reqVars>>

\* ------------------------------------------------------------- inputs
\* Vertices <<lon, lat>> and the cell keys <<lat, lon>> they fall in
P_A  == <<100, 200>>        \* cell <<0, 0>>
P_A2 == <<8000, 9000>>      \* cell <<0, 0>> too
P_B  == <<100, 16500>>      \* cell <<1600, 0>>
P_C  == <<100, 33000>>      \* cell <<3200, 0>>

RiskCells == {<<0, 0>>, <<1600, 0>>, <<3200, 0>>}
RiskMaps  == [RiskCells -> 0..RiskScale]
DayOnly(m) == [w \in Windows |-> IF w = "day" THEN m ELSE <<>>]

\* severity cells: each holds its own power of two, so a sum names its cells
SevCells == {<<0, 0>>, <<1600, 0>>, <<3200, 0>>, <<4800, 0>>, <<0, 3200>>}
SevOf(key) ==
    CASE key = <<0, 0>>    -> 1
      [] key = <<1600, 0>> -> 2
      [] key = <<3200, 0>> -> 4
      [] key = <<4800, 0>> -> 8
      [] OTHER             -> 16
SevDicts == {[k \in S |-> SevOf(k)] : S \in SUBSET SevCells}

NoArgs == [op |-> "none"]
NoRet  == [op |-> "none"]
NoFile == [kind |-> "none", rows |-> <<>>]
NoReq  == [time_window |-> "day", alpha |-> 0, risk_threshold |-> 0,
           detour_offset_m |-> 0, buffer_m |-> 0]

LoadIdle == lastFile = NoFile /\ raised = "none" /\ nLoads = 0
FnIdle   == fnArgs = NoArgs /\ fnRet = NoRet
ReqIdle  ==
    /\ pc = "IDLE" /\ req = NoReq /\ scored = <<>> /\ best_orig = <<>> /\ wp = <<>>
    /\ sent = <<>> /\ got = <<>> /\ geoCalls = 0 /\ resp = <<>>
    /\ failure = "none" /\ phases = <<>>

\* ================================================= index loading (SpecLoad)
Row(w, lat, lon, sv) == [window |-> w, lat |-> lat, lon |-> lon, sev_sum |-> sv]
Num(v) == Field("num", v)

GoodRows ==
    {Row(w, Num(lat), Num(0), Num(27)) :
        w \in {"day", "night", "dawn"}, lat \in {0, 16000, 16004}}
    \cup {Row("", Num(0), Num(0), Num(10))}
BadRows ==
    { Row("day", Field("text", 0), Num(0), Num(10)),
      Row("day", Field("none", 0), Num(0), Num(10)),
      Row("day", Num(0), Field("text", 0), Num(10)),
      Row("day", Num(0), Num(0), Field("text", 0)),
      Row("dawn", Field("text", 0), Num(0), Num(10)) }
Rows == GoodRows \cup BadRows

Files ==
    {[kind |-> "absent", rows |-> <<>>], [kind |-> "unreadable", rows |-> <<>>]}
    \cup {[kind |-> "csv", rows |-> rs] : rs \in SeqsOf(Rows, 0, MaxRows)}

\* SEV_INDEX as the module defines it, before the import-time load
InitLoad ==
    /\ SEV_INDEX = EmptyIndex
    /\ riskIndex = DayOnly(<<>>) /\ riskWired = FALSE
    /\ LoadIdle /\ FnIdle /\ ReqIdle

\* load_severity_index(path), path naming file
Load(file) ==
    /\ nLoads < MaxLoads
    /\ LET out == load_severity_index(SEV_INDEX, file)
       IN  /\ SEV_INDEX' = out.index
           /\ raised' = out.raised
    /\ lastFile' = file
    /\ nLoads' = nLoads + 1
    /\ UNCHANGED <<riskIndex, riskWired, fnVars, reqVars>>

NextLoad == nLoads < MaxLoads /\ \E file \in Files : Load(file)

SpecLoad == InitLoad /\ [][NextLoad]_vars

\* ======================================= risk scoring and detour (SpecRisk)
RiskRoutes == SeqsOf({P_A, P_B, P_C}, 1, MaxPts)

InitRisk ==
    /\ SEV_INDEX = EmptyIndex
    /\ \E m \in RiskMaps : riskIndex = DayOnly(m)
    /\ riskWired \in BOOLEAN
    /\ \E route \in RiskRoutes, w \in {"day", "night"} :
           fnArgs = [op |-> "risk", route |-> route, window |-> w]
    /\ fnRet = NoRet
    /\ LoadIdle /\ ReqIdle

\* worst_point(route_coords, window)
CallWorstPoint ==
    /\ fnArgs.op = "risk" /\ fnRet = NoRet
    /\ fnRet' = [op |-> "worst_point",
                 v  |-> worst_point(riskIndex, riskWired, fnArgs.route, fnArgs.window)]
    /\ UNCHANGED <<envVars, loadVars, fnArgs, reqVars>>

\* propose_detour_waypoint(route_coords, window, offset_m); left_r, right_r
\* are what the index holds at the two offset points.
CallProposeDetour(left_r, right_r) ==
    /\ fnArgs.op = "risk" /\ fnRet = NoRet
    /\ fnRet' = [op |-> "propose_detour_waypoint",
                 v  |-> propose_detour_waypoint(riskIndex, riskWired, fnArgs.route,
                            fnArgs.window, 200,
                            IF riskWired THEN left_r ELSE 0,
                            IF riskWired THEN right_r ELSE 0)]
    /\ UNCHANGED <<envVars, loadVars, fnArgs, reqVars>>

\* route_avg_risk(route_coords, window)
CallRouteAvgRisk ==
    /\ fnArgs.op = "risk" /\ fnRet = NoRet
    /\ fnRet' = [op |-> "route_avg_risk",
                 v  |-> route_avg_risk(riskIndex, riskWired, fnArgs.route, fnArgs.window)]
    /\ UNCHANGED <<envVars, loadVars, fnArgs, reqVars>>

NextRisk ==
    \/ CallWorstPoint
    \/ fnRet = NoRet /\
           \E left_r, right_r \in 0..RiskScale : CallProposeDetour(left_r, right_r)
    \/ CallRouteAvgRisk

SpecRisk == InitRisk /\ [][NextRisk]_vars

\* ====================================== averaging long routes (SpecAvg)
\* Routes of 0..MaxAvgPts vertices: every period-th vertex, from the one at
\* 0-based index phase, lies in cell <<1600, 0>>, the others in <<0, 0>>.
AvgRoute(n, period, phase) ==
    [i \in 1..n |-> IF (i - 1) % period = phase THEN P_B ELSE P_A]
AvgRoutes ==
    {AvgRoute(n, period, phase) :
        n \in 0..MaxAvgPts, period \in {2, 3}, phase \in {0, 1}}
AvgMaps == {m \in RiskMaps : m[<<3200, 0>>] = 0}

InitAvg ==
    /\ SEV_INDEX = EmptyIndex
    /\ \E m \in AvgMaps : riskIndex = DayOnly(m)
    /\ riskWired \in BOOLEAN
    /\ \E route \in AvgRoutes :
           fnArgs = [op |-> "risk", route |-> route, window |-> "day"]
    /\ fnRet = NoRet
    /\ LoadIdle /\ ReqIdle

NextAvg == CallRouteAvgRisk

SpecAvg == InitAvg /\ [][NextAvg]_vars

\* ============================================= severity scoring (SpecSev)
SevRoutes == SeqsOf({P_A, P_A2, P_B}, 0, MaxPts)
Buffers   == {0, 120}

InitSev ==
    /\ \E d \in SevDicts : SEV_INDEX = DayOnly(d)
    /\ riskIndex = DayOnly(<<>>) /\ riskWired = FALSE
    /\ \E route \in SevRoutes, w \in {"day", "night"}, b \in Buffers, dist \in {0, 10} :
           fnArgs = [op |-> "severity", route |-> route, window |-> w,
                     buffer_m |-> b, dist_hm |-> dist]
    /\ fnRet = NoRet
    /\ LoadIdle /\ ReqIdle

\* severity_for_route(route_coords, dist_km, window, buffer_m)
CallSeverityForRoute ==
    /\ fnArgs.op = "severity" /\ fnRet = NoRet
    /\ fnRet' = [op |-> "severity_for_route",
                 v  |-> severity_for_route(SEV_INDEX, fnArgs.route, fnArgs.dist_hm,
                                           fnArgs.window, fnArgs.buffer_m)]
    /\ UNCHANGED <<envVars, loadVars, fnArgs, reqVars>>

NextSev == CallSeverityForRoute

SpecSev == InitSev /\ [][NextSev]_vars

\* ======================================== POST /route/addresses (Spec)
\* What the directions service can return: up to MaxRoutes of these routes,
\* each [distance, geometry]
FlowRoutes ==
    { [distance |-> 10, geometry |-> <<P_B, P_A>>],
      [distance |-> 10, geometry |-> <<P_A, P_A2>>],
      [distance |-> 13, geometry |-> <<P_A, P_C, P_B>>] }
\* Every list of up to TOP_ROUTES routes, and every list of TOP_ROUTES routes
\* followed by further ones; a further route is the shortest, safest one, the
\* one that would be chosen if it were read.
Further   == [distance |-> 10, geometry |-> <<P_A, P_A2>>]
Responses ==
    SeqsOf(FlowRoutes, 0, TOP_ROUTES)
    \cup {p \o [i \in 1..k |-> Further] :
              p \in [1..TOP_ROUTES -> FlowRoutes], k \in 1..(MaxRoutes - TOP_ROUTES)}

FlowRisk    == [k \in RiskCells |->
                   CASE k = <<0, 0>> -> 0 [] k = <<1600, 0>> -> RiskScale [] OTHER -> 1]
FlowSev     == [k \in {<<0, 0>>, <<3200, 0>>} |-> SevOf(k)]
Alphas      == {0, 10}
Requests ==
    [time_window : {"day"}, alpha : Alphas, risk_threshold : 0..RiskScale,
     detour_offset_m : {220}, buffer_m : {40}]

Init ==
    /\ SEV_INDEX = DayOnly(FlowSev)
    /\ riskIndex = DayOnly(FlowRisk) /\ riskWired = TRUE
    /\ LoadIdle /\ FnIdle
    /\ pc = "START" /\ req \in Requests
    /\ scored = <<>> /\ best_orig = <<>> /\ wp = <<>>
    /\ sent = <<>> /\ got = <<>> /\ geoCalls = 0 /\ resp = <<>>
    /\ failure = "none" /\ phases = <<"START">>

Goto(phase) == pc' = phase /\ phases' = Append(phases, phase)

Fail(why) == Goto("FAILED") /\ failure' = why

\* 1) mapbox_geocode(start_address), mapbox_geocode(end_address)
Geocode(outcome) ==
    /\ pc = "START"
    /\ geoCalls' = IF outcome = "start_not_found" THEN 1 ELSE 2
    /\ IF outcome = "ok" THEN Goto("SCORE_ORIGINALS") /\ failure' = failure
                         ELSE Fail("not_found")
    /\ UNCHANGED <<envVars, loadVars, fnVars, req, scored, best_orig, wp, sent, got, resp>>

\* 2), 3) and the test of 4): the direct call, the originals' scores, and
\* whether the best original is too risky
ScoreOriginals(ok, routes) ==
    /\ pc = "SCORE_ORIGINALS"
    /\ sent' = Append(sent, 2)
    /\ got'  = Append(got, IF ok THEN Len(routes) ELSE -1)
    /\ IF FirstCallFailure(ok, routes) # "none"
       THEN /\ Fail(FirstCallFailure(ok, routes))
            /\ UNCHANGED <<scored, best_orig>>
       ELSE LET pool == ScoreRoutes(riskIndex, riskWired, routes, "orig", req)
                best == SortedByScore(pool)[1]
            IN  /\ scored' = pool
                /\ best_orig' = <<best>>
                /\ failure' = failure
                /\ Goto(IF NeedsDetour(best, req) THEN "SCORE_DETOUR" ELSE "SELECT")
    /\ UNCHANGED <<envVars, loadVars, fnVars, req, wp, geoCalls, resp>>

\* The body of 4): the waypoint, the call through it, the detour scores
ScoreDetour(ok, routes2, left_r, right_r) ==
    /\ pc = "SCORE_DETOUR"
    /\ wp' = <<propose_detour_waypoint(riskIndex, riskWired, best_orig[1].geom,
                   req.time_window, req.detour_offset_m, left_r, right_r)>>
    /\ sent' = Append(sent, 3)
    /\ got'  = Append(got, IF ok THEN Len(routes2) ELSE -1)
    /\ IF DetourCallFailure(ok, routes2) # "none"
       THEN /\ Fail(DetourCallFailure(ok, routes2))
            /\ UNCHANGED scored
       ELSE /\ scored' = scored \o ScoreRoutes(riskIndex, riskWired, routes2, "detour", req)
            /\ failure' = failure
            /\ Goto("SELECT")
    /\ UNCHANGED <<envVars, loadVars, fnVars, req, best_orig, geoCalls, resp>>

\* 5) the best of the pool, its severity score, the response
Select ==
    /\ pc = "SELECT"
    /\ LET best == SortedByScore(scored)[1]
           sev  == severity_for_route(SEV_INDEX, best.geom, best.dist_hm,
                                      req.time_window, req.buffer_m)
       IN  resp' = <<[geometry     |-> best.geom,
                      distance_hm  |-> best.dist_hm,
                      safety_score |-> sev.severity_score,
                      chosen       |-> best]>>
    /\ Goto("DONE")
    /\ UNCHANGED <<envVars, loadVars, fnVars, req, scored, best_orig, wp, sent, got,
                   geoCalls, failure>>

\* The phase is tested before the inputs are drawn
Next ==
    \/ pc = "START" /\
           \E outcome \in {"ok", "start_not_found", "end_not_found"} : Geocode(outcome)
    \/ pc = "SCORE_ORIGINALS" /\
           \E routes \in Responses : ScoreOriginals(TRUE, routes)
    \/ ScoreOriginals(FALSE, <<>>)
    \/ pc = "SCORE_DETOUR" /\
           \E routes2 \in Responses, left_r, right_r \in {0, RiskScale} :
               ScoreDetour(TRUE, routes2, left_r, right_r)
    \/ pc = "SCORE_DETOUR" /\
           \E left_r, right_r \in {0, RiskScale} : ScoreDetour(FALSE, <<>>, left_r, right_r)
    \/ Select

Spec == Init /\ [][Next]_vars

\* =================================================================== claims
\* ---- helpers of the statements
RouteRisk(i) == VertexRisk(riskIndex, riskWired, fnArgs.route[i], fnArgs.window)

\* the cell key of the bin a sample <<lon, lat>> falls in
SampleCell(sample) ==
    LET b == _bin_for(sample[2], sample[1]) IN _cell_key_from_bin(b[1], b[2])

CellStep == Fmt6(CELL_DEG)
Abs(x) == IF x < 0 THEN -x ELSE x

\* key is a cell at most r bins from cell c, in latitude and in longitude
WithinBins(key, c, r) ==
    /\ (key[1] - c[1]) % CellStep = 0 /\ Abs(key[1] - c[1]) <= r * CellStep
    /\ (key[2] - c[2]) % CellStep = 0 /\ Abs(key[2] - c[2]) <= r * CellStep

SevCellsOfCall == SEV_INDEX[fnArgs.window]
SampleCells    == {SampleCell(Samples(fnArgs.route)[s]) : s \in 1..Len(Samples(fnArgs.route))}
CellsNear(r)   == {k \in DOMAIN SevCellsOfCall : \E c \in SampleCells : WithinBins(k, c, r)}

\* ---- C9: for a non-empty route worst_point returns the first vertex, over
\* all vertices, whose risk is the maximum: index, that risk, that vertex.
C9_WorstPointFirstMax ==
    fnRet.op = "worst_point" =>
        LET n == Len(fnArgs.route)
            i == fnRet.v[1] + 1
        IN  /\ i \in 1..n
            /\ fnRet.v[2] = RouteRisk(i)
            /\ fnRet.v[3] = fnArgs.route[i]
            /\ \A j \in 1..n : RouteRisk(j) <= fnRet.v[2]
            /\ \A j \in 1..(i - 1) : RouteRisk(j) < fnRet.v[2]

\* the maximum is at a vertex that is not the first, and again after it
C9_Witness ==
    /\ fnRet.op = "worst_point"
    /\ fnRet.v[1] > 0
    /\ \E j \in (fnRet.v[1] + 2)..Len(fnArgs.route) : RouteRisk(j) = fnRet.v[2]

\* ---- C10: for a route of two or more vertices the bearing is taken to the
\* predecessor of the worst vertex, or to vertex 1 when the worst vertex is
\* vertex 0; that neighbour is a vertex of the route other than the worst.
C10_NeighbourIsAdjacent ==
    (fnRet.op = "propose_detour_waypoint" /\ Len(fnArgs.route) >= 2) =>
        LET n   == Len(fnArgs.route)
            idx == fnRet.v.worst
            j   == fnRet.v.j
        IN  /\ idx = worst_point(riskIndex, riskWired, fnArgs.route, fnArgs.window)[1]
            /\ j \in 0..(n - 1)
            /\ j # idx
            /\ idx > 0 => j = idx - 1
            /\ idx = 0 => j = 1
            /\ fnRet.v.neighbor = fnArgs.route[j + 1]

\* the worst vertex is the first one and the successor is used
C10_Witness ==
    /\ fnRet.op = "propose_detour_waypoint"
    /\ Len(fnArgs.route) >= 2
    /\ fnRet.v.worst = 0 /\ fnRet.v.j = 1
    /\ RouteRisk(1) > 0

\* ---- C7: severity_score is the sum of the severities of the distinct
\* index cells of the window within r bins of the bin of a sampled point,
\* each cell once however many samples cover it.
C7_EachCellOnce ==
    fnRet.op = "severity_for_route" =>
        fnRet.v.severity_score =
            SumSet(SevCellsOfCall, CellsNear(BinRadius(fnArgs.buffer_m)))

\* two samples in different bins both cover a populated cell
C7_Witness ==
    /\ fnRet.op = "severity_for_route"
    /\ fnRet.v.severity_score > 0
    /\ \E k \in DOMAIN SevCellsOfCall : \E c, d \in SampleCells :
           /\ c # d
           /\ WithinBins(k, c, BinRadius(fnArgs.buffer_m))
           /\ WithinBins(k, d, BinRadius(fnArgs.buffer_m))

RowWindow(row) == IF row.window = "" THEN "day" ELSE row.window
RowIsNumeric(row) == row.lat[1] = "num" /\ row.lon[1] = "num" /\ row.sev_sum[1] = "num"
RowCell(row) == _cell_key_from_bin(row.lat[2], row.lon[2])

\* a file that is missing, cannot be opened, or holds a row with a missing or
\* non-numeric lat, lon or sev_sum
Unusable(file) ==
    \/ file.kind \in {"absent", "unreadable"}
    \/ \E i \in 1..Len(file.rows) : ~RowIsNumeric(file.rows[i])

\* the per-(window, cell) severity sums of the rows of a well-formed file
FileSums(file) ==
    [w \in Windows |->
        LET mine == {i \in 1..Len(file.rows) : RowWindow(file.rows[i]) = w}
            keys == {RowCell(file.rows[i]) : i \in mine}
        IN  [k \in keys |->
                LET at == {i \in mine : RowCell(file.rows[i]) = k}
                IN  SumSet([i \in at |-> file.rows[i].sev_sum[2] \div 10], at)]]

\* ---- C5: whatever makes the persisted index missing or unreadable, the load
\* does not raise and leaves the index empty for all three windows.
C5_LoadNeverFatal ==
    (nLoads > 0 /\ Unusable(lastFile)) => (raised = "none" /\ SEV_INDEX = EmptyIndex)

\* ---- C6: after any sequence of loads the index is the per-(window, cell)
\* sums of the rows of the file the last call read, whatever was loaded before.
C6_ReloadReplaces ==
    (nLoads > 0 /\ lastFile.kind = "csv" /\ ~Unusable(lastFile)) =>
        SEV_INDEX = FileSums(lastFile)

\* ---- helpers of the request statements
Tagged(tag) == {i \in 1..Len(scored) : scored[i].tag = tag}
Origs == SelectSeq(scored, LAMBDA c : c.tag = "orig")

\* the position of the first candidate of pool whose score is the minimum
EarliestMin(pool) ==
    CHOOSE m \in 1..Len(pool) :
        /\ \A j \in 1..Len(pool) : FracLeq(pool[m].score, pool[j].score)
        /\ \A j \in 1..(m - 1) : FracLess(pool[m].score, pool[j].score)

\* the best original's average risk is at or above / below the threshold
OrigsScored   == Len(scored) > 0
BestOrigRisk  == Origs[EarliestMin(Origs)].r_avg
RiskAtOrAbove == BestOrigRisk[1] * RiskScale >= req.risk_threshold * BestOrigRisk[2]

C2_BelowThresholdSkipsDetour ==
    (OrigsScored /\ ~RiskAtOrAbove) =>
        /\ pc \in {"SELECT", "DONE"}
        /\ SubSeq(phases, 1, 3) = <<"START", "SCORE_ORIGINALS", "SELECT">>
        /\ \A i \in 1..Len(phases) : phases[i] # "SCORE_DETOUR"
        /\ wp = <<>>
        /\ sent = <<2>> /\ Len(got) = 1
        /\ Tagged("detour") = {}

\* a finished request whose best original carries some risk, below a threshold
C2_Witness ==
    /\ pc = "DONE" /\ OrigsScored /\ ~RiskAtOrAbove
    /\ BestOrigRisk[1] > 0
    /\ Len(scored) >= 2

\* ---- C3: the route returned is a candidate of least score
\* distance_km*0.7 + average_risk*alpha*0.3 in the pool of up to 3 originals
\* followed by up to 3 detour candidates, and the earliest such candidate.
C3_SelectsEarliestMinimum ==
    pc = "DONE" =>
        LET best == resp[1].chosen
            m    == EarliestMin(scored)
        IN  /\ best = scored[m]
            /\ resp[1].geometry = scored[m].geom
            /\ resp[1].distance_hm = scored[m].dist_hm
            /\ \A j \in 1..Len(scored) :
                   scored[j].score = Score(scored[j].dist_hm, scored[j].r_avg, req.alpha)
            /\ Cardinality(Tagged("orig")) \in 1..TOP_ROUTES
            /\ Cardinality(Tagged("detour")) \in 0..TOP_ROUTES
            /\ \A i \in Tagged("orig"), j \in Tagged("detour") : i < j

\* a detour candidate ties with the original that is returned
C3_Witness ==
    /\ pc = "DONE"
    /\ resp[1].chosen.tag = "orig"
    /\ \E j \in Tagged("detour") : FracEq(scored[j].score, resp[1].chosen.score)
    /\ \E i \in Tagged("orig") : FracLess(resp[1].chosen.score, scored[i].score)

AvgCalled  == fnRet.op = "route_avg_risk"
AvgNpts    == Len(fnArgs.route)
\* s = max(1, floor(point_count / 60))
AvgStride  == Max(1, AvgNpts \div AVG_SAMPLES)
\* the 1-based positions of the vertices at 0, s, 2s, ... below point_count
AvgVisited == {k * AvgStride + 1 : k \in 0..((AvgNpts - 1) \div AvgStride)}
\* the number of vertices the call summed over
AvgSampled == IF AvgNpts = 0 THEN 0 ELSE fnRet.v[2] \div RiskScale
\* the returned mean is the risk summed over exactly AvgVisited, over their
\* number; 0.0 for an empty route
AvgIsMeanOfVisited ==
    /\ AvgNpts = 0 => fnRet.v[1] = 0 /\ fnRet.v[2] > 0
    /\ AvgNpts > 0 =>
           /\ AvgSampled = Cardinality(AvgVisited)
           /\ fnRet.v[2] = AvgSampled * RiskScale
           /\ fnRet.v[1] =
                  SumIdx([i \in 1..AvgNpts |-> RouteRisk(i)], AvgVisited, 1, AvgNpts)

\* ---- C11 as stated: route_avg_risk visits the vertices at 0, s, 2s, ...
\* below point_count with s = max(1, floor(point_count / 60)), returns the
\* unweighted mean of the risk at exactly those vertices (0.0 for an empty
\* route), and samples at most 60 vertices whatever the route length.
C11_AtMostSixtySamples ==
    AvgCalled => (AvgIsMeanOfVisited /\ AvgSampled <= AVG_SAMPLES)

\* ---- C11 amended: route_avg_risk visits the vertices at 0, s, 2s, ...
\* below point_count with s = max(1, floor(point_count / 60)) and returns the
\* unweighted mean of the risk at exactly those vertices (0.0 for an empty
\* route); it samples ceil(point_count / s) vertices, which is fewer than
\* 2 * 60 for any route length and can exceed 60.
C11_FewerThanTwiceSixtySamples ==
    AvgCalled =>
        /\ AvgIsMeanOfVisited
        /\ AvgSampled = (AvgNpts + AvgStride - 1) \div AvgStride
        /\ AvgSampled < 2 * AVG_SAMPLES

\* a route one vertex short of stride 2: every vertex is sampled, nearly
\* twice 60 of them, and some carry risk
C11_Witness ==
    /\ AvgCalled
    /\ AvgNpts = 2 * AVG_SAMPLES - 1
    /\ AvgSampled = AvgNpts
    /\ fnRet.v[1] > 0 /\ fnRet.v[1] < fnRet.v[2]

=============================================================================
